---- MODULE Spec2Model ----
(***************************************************************************)
(* WatchedMutationLink (apollo-link-watched-mutation): a link that tracks   *)
(* the cache keys of watched queries and, when a watched mutation resolves, *)
(* rewrites the cached result of every tracked query the mutation affects.  *)
(*                                                                          *)
(* The model follows the three source files:                                *)
(*   src/unnamed/part_000                 the link (WatchedMutationLink)    *)
(*   src/unnamed/part_001                 createCacheManager                *)
(*   src/src/queries-to-update-manager.js createQueryKeyManager             *)
(* The mutation registry, the in-flight snapshot store, the result          *)
(* classifiers of ./utils and the Apollo cache itself are not part of the   *)
(* sources; they are modelled from their documented interface.              *)
(***************************************************************************)
EXTENDS Integers, Sequences, FiniteSets, TLC

VARIABLES
    readOnly,                   \* constructor flag (part_000:30)
    debug,                      \* constructor flag (part_000:29)
    cache,                      \* the underlying Apollo cache
    queriesToUpdate,            \* queries-to-update-manager.js:4
    inflightOptimisticRequests, \* the snapshot store (part_000:33)
    pending,                    \* operations forwarded, result not yet arrived
    issued,                     \* number of operations requested so far
    external,                   \* number of steps taken outside the link
    entry,                      \* per pending optimistic mutation: the cache at entry
    last,                       \* what the last step did (calls, result)
    twin                        \* a second link fed the same steps (paired runs)

vars == <<readOnly, debug, cache, queriesToUpdate, inflightOptimisticRequests,
          pending, issued, external, entry, last, twin>>

-----------------------------------------------------------------------------
(* Bounds of the model *)

MaxRequests == 3

MaxExternal == 2

-----------------------------------------------------------------------------
(* JavaScript values *)

Undefined == [type |-> "undefined"]

Null == [type |-> "null"]

\* a query result object holding a list of items
Obj(items) == [type |-> "object", items |-> items]

Bool(b) == [type |-> "boolean", value |-> b]

\* !x for the values the link tests (an object is truthy)
Falsy(x) == x = Undefined \/ x = Null \/ x = Bool(FALSE)

\* an undefined property value inside a variables object
UndefinedValue == "undefined"

Items == {"A", "B", "Bp"}

-----------------------------------------------------------------------------
(* Operation documents *)

QueryNames == {"ListItems", "Summary", "Other"}

MutationNames == {"AddItem", "Rename"}

\* top-level fields selected by each query document
SelectionsOf(queryName) ==
    CASE queryName = "ListItems" -> <<"items">>
      [] queryName = "Summary"   -> <<"count", "total">>
      [] OTHER                   -> <<"misc">>

\* variables objects: a sequence of <<name, value>> in property order
NoVars == << >>

FilterX == << <<"filter", "x">> >>

FilterY == << <<"filter", "y">> >>

FilterXPage == << <<"filter", "x">>, <<"page", "1">> >>

PageFilterX == << <<"page", "1">>, <<"filter", "x">> >>

FilterXUndef == << <<"filter", "x">>, <<"page", UndefinedValue>> >>

RECURSIVE SeqToSet(_)
SeqToSet(s) == IF s = << >> THEN {} ELSE {Head(s)} \cup SeqToSet(Tail(s))

-----------------------------------------------------------------------------
(* Cache keys *)

\* an operation's document is identified by the name of its main definition
getQueryName(query) == query

createKey(operation) ==
    [query |-> operation.query, variables |-> operation.variables]

\* JSON.stringify of a key: properties in insertion order, properties whose
\* value is undefined left out
Stringify(key) ==
    <<key.query, SelectSeq(key.variables, LAMBDA p : p[2] # UndefinedValue)>>

\* deep structural equality of two keys: same document, same properties with
\* the same values, whatever the order the properties were written in
StructurallyEqual(k1, k2) ==
    /\ k1.query = k2.query
    /\ SeqToSet(k1.variables) = SeqToSet(k2.variables)

\* the identity under which the cache stores a query result: the cache
\* canonicalises variables (sorted, undefined left out)
StoreId(key) ==
    <<key.query, {p \in SeqToSet(key.variables) : p[2] # UndefinedValue}>>

\* policies.getStoreFieldName for one top-level field of the key's query
StoreFieldName(fieldName, key) == <<fieldName, StoreId(key)[2]>>

Key(queryName, variables) == [query |-> queryName, variables |-> variables]

\* the query results the cache can hold
CacheKeys ==
    {Key("ListItems", FilterX), Key("ListItems", FilterY),
     Key("Summary", NoVars), Key("Other", NoVars)}

StoreIds == {StoreId(k) : k \in CacheKeys}

-----------------------------------------------------------------------------
(* The underlying cache: root query results by store identity (data) and   *)
(* the root fields present in the store (ids).                              *)

Throws == [type |-> "throws"]

EmptyCache(transactional) ==
    [data |-> [id \in StoreIds |-> Undefined], ids |-> {},
     transactional |-> transactional]

\* the store-level identifiers of the top-level fields of the key's query
FieldIdsOf(key) ==
    [i \in 1..Len(SelectionsOf(key.query)) |->
        StoreFieldName(SelectionsOf(key.query)[i], key)]

readQuery(c, key) ==
    IF c.data[StoreId(key)] = Undefined THEN Throws ELSE c.data[StoreId(key)]

writeQuery(c, key, data) ==
    [c EXCEPT !.data = [c.data EXCEPT ![StoreId(key)] = data],
              !.ids  = c.ids \cup SeqToSet(FieldIdsOf(key))]

\* cache.evict({fieldName}): drops the field; a query that selects it can no
\* longer be read
storeEvict(c, fieldId) ==
    [c EXCEPT !.data = [id \in StoreIds |->
                          IF \E k \in CacheKeys :
                                 /\ StoreId(k) = id
                                 /\ fieldId \in SeqToSet(FieldIdsOf(k))
                          THEN Undefined ELSE c.data[id]],
              !.ids  = c.ids \ {fieldId}]

storeEvictResult(c, fieldId) == fieldId \in c.ids

-----------------------------------------------------------------------------
(* The state of one link, as a record the handlers thread through:          *)
(* log is the sequence of calls the handler made, threw is set when an      *)
(* error escaped.                                                           *)

Event(ev, key, val) == [ev |-> ev, key |-> key, val |-> val]

Logged(ls, ev, key, val) == [ls EXCEPT !.log = Append(@, Event(ev, key, val))]

NoKey == [query |-> "", variables |-> NoVars]

-----------------------------------------------------------------------------
(* createCacheManager *)

\* read answering nothing on a read-only link
cacheRead_SkipsWhenReadOnly(ls, query) ==
    LET r == readQuery(ls.cache, query)
    IN  IF r = Throws \/ ls.readOnly THEN Undefined ELSE r

cacheRead(ls, query) ==
    LET r == readQuery(ls.cache, query)
    IN  IF r = Throws THEN Undefined ELSE r

\* write without the read-only test
cacheWrite_IgnoresReadOnly(ls, query, data, failing) ==
    LET called == Logged(ls, "write", query, data)
    IN  IF StoreId(query) \in failing
        THEN Logged(called, "writeQuery", query, Throws)
        ELSE [Logged(called, "writeQuery", query, data)
                 EXCEPT !.cache = writeQuery(ls.cache, query, data)]

\* write letting a store failure escape
cacheWrite_Rethrows(ls, query, data, failing) ==
    LET called == Logged(ls, "write", query, data)
    IN  IF ls.readOnly THEN called
        ELSE IF StoreId(query) \in failing
             THEN [Logged(called, "writeQuery", query, Throws) EXCEPT !.threw = TRUE]
             ELSE [Logged(called, "writeQuery", query, data)
                      EXCEPT !.cache = writeQuery(ls.cache, query, data)]

\* the write skips the store in read-only mode and swallows a store failure;
\* failing is the set of store identities whose writeQuery throws
cacheWrite(ls, query, data, failing) ==
    LET called == Logged(ls, "write", query, data)
    IN  IF ls.readOnly THEN called
        ELSE IF StoreId(query) \in failing
             THEN Logged(called, "writeQuery", query, Throws)
             ELSE [Logged(called, "writeQuery", query, data)
                      EXCEPT !.cache = writeQuery(ls.cache, query, data)]

RECURSIVE WriteAll_StopsAtFailure(_, _, _)
\* the writes of a pass given up at the first store failure
WriteAll_StopsAtFailure(ls, itemsToWrite, failing) ==
    IF itemsToWrite = << >> THEN ls
    ELSE LET written == cacheWrite(ls, Head(itemsToWrite).queryKey,
                                   Head(itemsToWrite).updatedData, failing)
         IN  IF StoreId(Head(itemsToWrite).queryKey) \in failing THEN written
             ELSE WriteAll_StopsAtFailure(written, Tail(itemsToWrite), failing)

RECURSIVE WriteAll(_, _, _)
\* itemsToWrite.forEach(data => this.cache.write(data.queryKey, data.updatedData))
WriteAll(ls, itemsToWrite, failing) ==
    IF itemsToWrite = << >> THEN ls
    ELSE WriteAll(cacheWrite(ls, Head(itemsToWrite).queryKey,
                             Head(itemsToWrite).updatedData, failing),
                  Tail(itemsToWrite), failing)

RECURSIVE performTransaction_PerWrite(_, _, _)
\* one transaction per write instead of one for the pass
performTransaction_PerWrite(ls, itemsToWrite, failing) ==
    IF itemsToWrite = << >> THEN ls
    ELSE LET how   == IF ls.cache.transactional THEN "performTransaction"
                      ELSE "immediate"
             begun == Logged(ls, "txBegin", NoKey, [type |-> how])
             done  == cacheWrite(begun, Head(itemsToWrite).queryKey,
                                 Head(itemsToWrite).updatedData, failing)
         IN  performTransaction_PerWrite(
                 Logged(done, "txEnd", NoKey, [type |-> how]),
                 Tail(itemsToWrite), failing)

\* runs the writes in the cache's performTransaction when it has one, else
\* immediately
performTransaction(ls, itemsToWrite, failing) ==
    LET how   == IF ls.cache.transactional THEN "performTransaction" ELSE "immediate"
        begun == Logged(ls, "txBegin", NoKey, [type |-> how])
        done  == WriteAll(begun, itemsToWrite, failing)
    IN  Logged(done, "txEnd", NoKey, [type |-> how])

RECURSIVE EvictEach(_, _, _, _)
\* cacheIds.forEach(cacheId => { evicted ||= cache.evict({ fieldName: cacheId }) }):
\* the store is called only while evicted is still false; a store failure
\* (a field id in failing) ends the loop with an error
EvictEach(ls, cacheIds, evicted, failing) ==
    IF cacheIds = << >> THEN [ls |-> ls, evicted |-> evicted, error |-> FALSE]
    ELSE IF evicted THEN EvictEach(ls, Tail(cacheIds), TRUE, failing)
    ELSE IF Head(cacheIds) \in failing
         THEN [ls |-> Logged(ls, "evict", NoKey, Throws),
               evicted |-> evicted, error |-> TRUE]
         ELSE EvictEach(
                [Logged(ls, "evict", NoKey,
                        Bool(storeEvictResult(ls.cache, Head(cacheIds))))
                    EXCEPT !.cache = storeEvict(ls.cache, Head(cacheIds))],
                Tail(cacheIds),
                storeEvictResult(ls.cache, Head(cacheIds)),
                failing)

\* evict: ret is the value returned, threw is set when an error escapes.
\* The debug messages of the try and of the catch block both read the
\* undeclared name queryName, which raises a ReferenceError.
cacheEvict(ls, query, failing) ==
    IF ls.readOnly THEN [ls EXCEPT !.ret = Bool(FALSE)]
    ELSE LET r      == EvictEach(ls, FieldIdsOf(query), FALSE, failing)
             caught == r.error \/ ls.debug
         IN  IF ~caught THEN [r.ls EXCEPT !.ret = Bool(r.evicted)]
             ELSE IF ls.debug THEN [r.ls EXCEPT !.ret = Undefined, !.threw = TRUE]
             ELSE [r.ls EXCEPT !.ret = Undefined]

\* gc: a store failure is swallowed
cacheGc(ls, fails) ==
    Logged(ls, "gc", NoKey, IF fails THEN Throws ELSE Undefined)

-----------------------------------------------------------------------------
(* createQueryKeyManager: queriesToUpdate maps a query name to the list of  *)
(* its keys; a name nothing was stored under is not in its domain.          *)

TypeError == [type |-> "TypeError"]

getQueryKeysToUpdate(q, queryName) ==
    IF queryName \in DOMAIN q THEN q[queryName] ELSE << >>

Assign(q, queryName, keys) ==
    [n \in DOMAIN q \cup {queryName} |-> IF n = queryName THEN keys ELSE q[n]]

\* addQuery comparing the documents of the keys only
addQuery_ComparesQueryOnly(q, queryName, queryKey) ==
    LET existingQueryKeys == getQueryKeysToUpdate(q, queryName)
    IN  IF ~ \E i \in 1..Len(existingQueryKeys) :
                existingQueryKeys[i].query = queryKey.query
        THEN Assign(q, queryName, Append(existingQueryKeys, queryKey))
        ELSE q

addQuery(q, queryName, queryKey) ==
    LET existingQueryKeys == getQueryKeysToUpdate(q, queryName)
    IN  IF ~ \E i \in 1..Len(existingQueryKeys) :
                Stringify(existingQueryKeys[i]) = Stringify(queryKey)
        THEN Assign(q, queryName, Append(existingQueryKeys, queryKey))
        ELSE q

\* removeQuery keeping the matching key and dropping the others
removeQuery_KeepsMatching(q, queryName, queryKey) ==
    LET updatedQueryKeys ==
            SelectSeq(getQueryKeysToUpdate(q, queryName),
                      LAMBDA key : Stringify(key) = Stringify(queryKey))
    IN  IF queryName \notin DOMAIN q THEN TypeError
        ELSE IF Len(q[queryName]) # Len(updatedQueryKeys)
             THEN Assign(q, queryName, updatedQueryKeys)
             ELSE q

\* reading .length of queriesToUpdate[queryName] raises a TypeError when
\* nothing was ever stored under queryName
removeQuery(q, queryName, queryKey) ==
    LET updatedQueryKeys ==
            SelectSeq(getQueryKeysToUpdate(q, queryName),
                      LAMBDA key : Stringify(key) # Stringify(queryKey))
    IN  IF queryName \notin DOMAIN q THEN TypeError
        ELSE IF Len(q[queryName]) # Len(updatedQueryKeys)
             THEN Assign(q, queryName, updatedQueryKeys)
             ELSE q

hasQueryToUpdate(q, queryName) == Len(getQueryKeysToUpdate(q, queryName)) > 0

-----------------------------------------------------------------------------
(* createMutationsManager: the registry built from mutationQueryResolverMap *)

\* watched mutation -> the query names it affects, in declaration order
mutationQueryResolverMap == [AddItem |-> <<"ListItems", "Summary">>]

isWatched(mutationName) == mutationName \in DOMAIN mutationQueryResolverMap

getRegisteredQueryNames(mutationName) ==
    IF isWatched(mutationName) THEN mutationQueryResolverMap[mutationName] ELSE << >>

getAllRegisteredQueryNames ==
    UNION {SeqToSet(mutationQueryResolverMap[m]) : m \in DOMAIN mutationQueryResolverMap}

getMutationNames == DOMAIN mutationQueryResolverMap

\* the update transforms of the configuration. ListItems adds the mutation's
\* item to the list (in front for filter y) and answers null when the list
\* already holds it; Summary keeps the latest item and answers undefined when
\* it already holds it.
UpdateFn(mutationName, queryName, args) ==
    LET item  == args.mutation.result.data
        items == args.query.result.items
    IN  IF queryName = "ListItems"
        THEN IF item \in SeqToSet(items) THEN Null
             ELSE IF <<"filter", "y">> \in SeqToSet(args.query.variables)
                  THEN Obj(<<item>> \o items)
                  ELSE Obj(Append(items, item))
        ELSE IF items = <<item>> THEN Undefined ELSE Obj(<<item>>)

-----------------------------------------------------------------------------
(* createInflightRequestManager: the snapshot store *)

\* the identity of an argument used as snapshot key: a cache key (an object,
\* compared structurally) or a string
KeyId(queryKey) ==
    [type |-> "object", id |-> <<queryKey.query, SeqToSet(queryKey.variables)>>]

NameId(name) == [type |-> "string", id |-> <<name, {}>>]

inflightSet(m, id, value) ==
    [i \in DOMAIN m \cup {id} |-> IF i = id THEN value ELSE m[i]]

getBeforeState(m, id) == IF id \in DOMAIN m THEN m[id] ELSE Undefined

-----------------------------------------------------------------------------
(* ./utils: classification of an operation and its result *)

isOptimistic(context) == context.optimistic

isSuccessfulQuery(operation, result) == operation = "query" /\ result.ok

isSuccessfulMutation(operation, result) == operation = "mutation" /\ result.ok

isFailedMutation(operation, result) == operation = "mutation" /\ ~result.ok

-----------------------------------------------------------------------------
(* WatchedMutationLink *)

\* every named operation taken as related to a watched mutation
isQueryRelated_AnyName(operationName) == operationName # ""

isQueryRelated(operationName) ==
    \E queryName \in getAllRegisteredQueryNames : queryName = operationName

addRelatedQuery(ls, queryName, operation) ==
    [Logged(ls, "track", createKey(operation), Undefined)
        EXCEPT !.queriesToUpdate = addQuery(@, queryName, createKey(operation))]

removeRelatedQuery(ls, queryName, queryKey) ==
    LET r == removeQuery(ls.queriesToUpdate, queryName, queryKey)
    IN  IF queryName \notin DOMAIN ls.queriesToUpdate
        THEN [ls EXCEPT !.threw = TRUE]
        ELSE [Logged(ls, "untrack", queryKey, Undefined)
                 EXCEPT !.queriesToUpdate = r]

RECURSIVE ConcatKeys(_, _)
ConcatKeys(q, queryNames) ==
    IF queryNames = << >> THEN << >>
    ELSE getQueryKeysToUpdate(q, Head(queryNames)) \o ConcatKeys(q, Tail(queryNames))

\* all the tracked keys of the queries the mutation affects
getCachedQueryKeysToUpdate(ls, mutationName) ==
    ConcatKeys(ls.queriesToUpdate, getRegisteredQueryNames(mutationName))

TransformArgs(mutationOperation, mutationData, queryKey, cachedQueryData) ==
    [mutation |-> [name      |-> getQueryName(mutationOperation.query),
                   variables |-> mutationOperation.variables,
                   result    |-> mutationData],
     query    |-> [name      |-> getQueryName(queryKey.query),
                   variables |-> queryKey.variables,
                   result    |-> cachedQueryData]]

\* getUpdateAfterMutation handing back the cached data instead of the
\* transform's output
getUpdateAfterMutation_WritesCached(ls, mutationOperation, mutationData, queryKey) ==
    LET queryName       == getQueryName(queryKey.query)
        cachedQueryData == cacheRead(ls, queryKey)
        read            == Logged(ls, "read", queryKey, cachedQueryData)
        mutationName    == getQueryName(mutationOperation.query)
        args            == TransformArgs(mutationOperation, mutationData,
                                         queryKey, cachedQueryData)
        updatedData     == UpdateFn(mutationName, queryName, args)
    IN  IF Falsy(cachedQueryData)
        THEN [ls |-> removeRelatedQuery(read, queryName, queryKey), item |-> Undefined]
        ELSE [ls   |-> Logged(read, "transform", queryKey,
                              [type |-> "call", args |-> args, out |-> updatedData]),
              item |-> IF updatedData # Null /\ updatedData # Undefined
                       THEN [queryKey |-> queryKey, updatedData |-> cachedQueryData]
                       ELSE Undefined]

\* answers [ls, item]: item is undefined or the {queryKey, updatedData} to write
getUpdateAfterMutation(ls, mutationOperation, mutationData, queryKey) ==
    LET queryName       == getQueryName(queryKey.query)
        cachedQueryData == cacheRead(ls, queryKey)
        read            == Logged(ls, "read", queryKey, cachedQueryData)
        mutationName    == getQueryName(mutationOperation.query)
        args            == TransformArgs(mutationOperation, mutationData,
                                         queryKey, cachedQueryData)
        updatedData     == UpdateFn(mutationName, queryName, args)
    IN  IF Falsy(cachedQueryData)
        THEN [ls |-> removeRelatedQuery(read, queryName, queryKey), item |-> Undefined]
        ELSE [ls   |-> Logged(read, "transform", queryKey,
                              [type |-> "call", args |-> args, out |-> updatedData]),
              item |-> IF updatedData # Null /\ updatedData # Undefined
                       THEN [queryKey |-> queryKey, updatedData |-> updatedData]
                       ELSE Undefined]

RECURSIVE CollectItems(_, _, _, _, _)
\* the reduce of updateQueriesAfterMutation over the keys listed at its start
CollectItems(ls, keys, operation, result, items) ==
    IF keys = << >> \/ ls.threw THEN [ls |-> ls, items |-> items]
    ELSE LET r == getUpdateAfterMutation(ls, operation, result, Head(keys))
         IN  CollectItems(r.ls, Tail(keys), operation, result,
                          IF r.item # Undefined THEN Append(items, r.item) ELSE items)

updateQueriesAfterMutation(ls, operation, operationName, result, failing) ==
    LET cachedQueryToUpdateKeys == getCachedQueryKeysToUpdate(ls, operationName)
        r == CollectItems(ls, cachedQueryToUpdateKeys, operation, result, << >>)
    IN  IF r.ls.threw THEN r.ls
        ELSE performTransaction(r.ls, r.items, failing)

clearOptimisticRequest(ls, id) ==
    [Logged(ls, "snapshot", NoKey, [type |-> "set", id |-> id, value |-> Null])
        EXCEPT !.inflightOptimisticRequests = inflightSet(@, id, Null)]

RECURSIVE SnapshotEach_KeepsFirst(_, _)
\* the snapshots taken only for the keys that have none yet
SnapshotEach_KeepsFirst(ls, keys) ==
    IF keys = << >> THEN ls
    ELSE LET queryKey           == Head(keys)
             currentCachedState == cacheRead(ls, queryKey)
             read == Logged(ls, "read", queryKey, currentCachedState)
             set  == Logged(read, "snapshot", queryKey,
                            [type |-> "set", id |-> KeyId(queryKey),
                             value |-> currentCachedState])
         IN  IF ~Falsy(getBeforeState(ls.inflightOptimisticRequests, KeyId(queryKey)))
             THEN SnapshotEach_KeepsFirst(read, Tail(keys))
             ELSE SnapshotEach_KeepsFirst(
                    [set EXCEPT !.inflightOptimisticRequests =
                                    inflightSet(@, KeyId(queryKey), currentCachedState)],
                    Tail(keys))

RECURSIVE SnapshotEach(_, _)
SnapshotEach(ls, keys) ==
    IF keys = << >> THEN ls
    ELSE LET queryKey           == Head(keys)
             currentCachedState == cacheRead(ls, queryKey)
             read == Logged(ls, "read", queryKey, currentCachedState)
             set  == Logged(read, "snapshot", queryKey,
                            [type |-> "set", id |-> KeyId(queryKey),
                             value |-> currentCachedState])
         IN  SnapshotEach(
               [set EXCEPT !.inflightOptimisticRequests =
                               inflightSet(@, KeyId(queryKey), currentCachedState)],
               Tail(keys))

addOptimisticRequest(ls, operationName) ==
    SnapshotEach(ls, getCachedQueryKeysToUpdate(ls, operationName))

RECURSIVE RevertEach(_, _, _)
RevertEach(ls, keys, failing) ==
    IF keys = << >> THEN ls
    ELSE LET queryKey            == Head(keys)
             previousCachedState ==
                 getBeforeState(ls.inflightOptimisticRequests, KeyId(queryKey))
             written == IF ~Falsy(previousCachedState)
                        THEN cacheWrite(ls, queryKey, previousCachedState, failing)
                        ELSE ls
         IN  RevertEach(clearOptimisticRequest(written, KeyId(queryKey)),
                        Tail(keys), failing)

RECURSIVE ClearEach(_, _)
ClearEach(ls, keys) ==
    IF keys = << >> THEN ls
    ELSE ClearEach(clearOptimisticRequest(ls, KeyId(Head(keys))), Tail(keys))

\* revertOptimisticRequest clearing the snapshots without writing them back
revertOptimisticRequest_ClearsOnly(ls, operationName, failing) ==
    ClearEach(ls, getCachedQueryKeysToUpdate(ls, operationName))

revertOptimisticRequest(ls, operationName, failing) ==
    RevertEach(ls, getCachedQueryKeysToUpdate(ls, operationName), failing)

\* the entry applying the prediction before taking the snapshots
requestEntry_UpdatesFirst(ls, operation, failing) ==
    LET operationName == getQueryName(operation.query)
        context       == operation.context
    IN  IF isOptimistic(context) /\ isWatched(operationName)
        THEN addOptimisticRequest(
                 updateQueriesAfterMutation(ls, operation, operationName,
                     [data |-> context.optimisticResponse], failing),
                 operationName)
        ELSE ls

\* request(), up to the return of the mapped observable (part_000:145-154)
requestEntry(ls, operation, failing) ==
    LET operationName == getQueryName(operation.query)
        context       == operation.context
    IN  IF isOptimistic(context) /\ isWatched(operationName)
        THEN updateQueriesAfterMutation(
                 addOptimisticRequest(ls, operationName), operation, operationName,
                 [data |-> context.optimisticResponse], failing)
        ELSE ls

\* onResult running the update pass for every successful watched mutation,
\* optimistic or not
onResult_AlwaysUpdates(ls, operation, result, failing) ==
    LET operationName == getQueryName(operation.query)
        context       == operation.context
    IN  IF isSuccessfulQuery(operation.operation, result) /\ isQueryRelated(operationName)
        THEN addRelatedQuery(ls, operationName, operation)
        ELSE IF isSuccessfulMutation(operation.operation, result) /\ isWatched(operationName)
        THEN updateQueriesAfterMutation(
                 IF isOptimistic(context)
                 THEN clearOptimisticRequest(ls, NameId(operationName)) ELSE ls,
                 operation, operationName, result, failing)
        ELSE IF /\ isFailedMutation(operation.operation, result)
                /\ isWatched(operationName)
                /\ isOptimistic(context)
        THEN revertOptimisticRequest(ls, operationName, failing)
        ELSE ls

\* onResult reverting on the failure of any watched mutation, optimistic or not
onResult_RevertsAnyFailure(ls, operation, result, failing) ==
    LET operationName == getQueryName(operation.query)
        context       == operation.context
    IN  IF isSuccessfulQuery(operation.operation, result) /\ isQueryRelated(operationName)
        THEN addRelatedQuery(ls, operationName, operation)
        ELSE IF isSuccessfulMutation(operation.operation, result) /\ isWatched(operationName)
        THEN IF isOptimistic(context)
             THEN clearOptimisticRequest(ls, NameId(operationName))
             ELSE updateQueriesAfterMutation(ls, operation, operationName, result, failing)
        ELSE IF /\ isFailedMutation(operation.operation, result)
                /\ isWatched(operationName)
        THEN revertOptimisticRequest(ls, operationName, failing)
        ELSE ls

\* the function mapped over the result stream (part_000:156-177)
onResult(ls, operation, result, failing) ==
    LET operationName == getQueryName(operation.query)
        context       == operation.context
    IN  IF isSuccessfulQuery(operation.operation, result) /\ isQueryRelated(operationName)
        THEN addRelatedQuery(ls, operationName, operation)
        ELSE IF isSuccessfulMutation(operation.operation, result) /\ isWatched(operationName)
        THEN IF isOptimistic(context)
             THEN clearOptimisticRequest(ls, NameId(operationName))
             ELSE updateQueriesAfterMutation(ls, operation, operationName, result, failing)
        ELSE IF /\ isFailedMutation(operation.operation, result)
                /\ isWatched(operationName)
                /\ isOptimistic(context)
        THEN revertOptimisticRequest(ls, operationName, failing)
        ELSE ls

\* what the mapped function hands to the caller
resultReturned(ls, result) == IF ls.threw THEN Throws ELSE result

-----------------------------------------------------------------------------
(* The state machine: operations enter the link, their results arrive in    *)
(* any order, and the cache is also written and invalidated from outside.   *)

NoContext == [optimistic |-> FALSE, optimisticResponse |-> "none"]

OptimisticContext(item) == [optimistic |-> TRUE, optimisticResponse |-> item]

Op(kind, name, variables, context) ==
    [operation |-> kind, query |-> name, variables |-> variables, context |-> context]

\* the operations the application sends
Operations ==
    {Op("query", "ListItems", FilterX, NoContext),
     Op("query", "ListItems", FilterY, NoContext),
     Op("query", "Other", NoVars, NoContext),
     Op("mutation", "AddItem", NoVars, NoContext),
     Op("mutation", "AddItem", NoVars, OptimisticContext("B")),
     Op("mutation", "Rename", NoVars, NoContext)}

\* the keys those operations read and write
Keys == {createKey(o) : o \in {p \in Operations : p.operation = "query"}}

\* the results the transport can produce for an operation
ResultsOf(operation) ==
    IF operation.operation = "query"
    THEN {[ok |-> TRUE, data |-> "none"], [ok |-> FALSE, data |-> "none"]}
    ELSE {[ok |-> TRUE, data |-> "Bp"], [ok |-> FALSE, data |-> "none"]}

\* store failures of one step: no writeQuery fails, or the one of one of the
\* identities the step writes (log is the step's log when nothing fails)
Failures(log) ==
    {{}} \cup {{StoreId(log[i].key)} : i \in {j \in 1..Len(log) : log[j].ev = "writeQuery"}}

FieldFailures(key) == {{}} \cup {{f} : f \in SeqToSet(FieldIdsOf(key))}

NoOp == [id |-> 0, operation |-> "none", query |-> "", variables |-> NoVars,
         context |-> NoContext]

NoResult == [ok |-> FALSE, data |-> "none"]

NoEntry == [data |-> << >>, keys |-> << >>, clean |-> FALSE, fault |-> FALSE,
            alone |-> FALSE, reverted |-> FALSE]

\* the link's state as the record the handlers work on
Self ==
    [readOnly |-> readOnly, debug |-> debug, cache |-> cache,
     queriesToUpdate |-> queriesToUpdate,
     inflightOptimisticRequests |-> inflightOptimisticRequests,
     log |-> << >>, threw |-> FALSE, ret |-> Undefined]

Install(new) ==
    /\ cache' = new.cache
    /\ queriesToUpdate' = new.queriesToUpdate
    /\ inflightOptimisticRequests' = new.inflightOptimisticRequests

Changed(new) ==
    \/ cache # new.cache
    \/ queriesToUpdate # new.queriesToUpdate
    \/ inflightOptimisticRequests # new.inflightOptimisticRequests

\* the pending optimistic mutations other than id are no longer undisturbed
Disturb(e, id, changed) ==
    [i \in DOMAIN e \ {id} |-> IF changed THEN [e[i] EXCEPT !.clean = FALSE] ELSE e[i]]

\* a watched optimistic mutation failed: the ones still pending record it
MarkReverted(e, failed) ==
    [i \in DOMAIN e |-> IF failed THEN [e[i] EXCEPT !.reverted = TRUE] ELSE e[i]]

\* the watched optimistic mutations whose result has not arrived
PendingOptimistic ==
    {o \in pending : isWatched(o.query) /\ isOptimistic(o.context)}

Did(act, operation, result, new, returned, was) ==
    [act |-> act, op |-> operation, result |-> result, returned |-> returned,
     log |-> new.log, threw |-> new.threw, ret |-> new.ret, entry |-> was]

\* the twin link takes the same step
TwinStep(F(_)) ==
    twin' = IF twin.on
            THEN [F([twin EXCEPT !.log = << >>, !.threw = FALSE, !.ret = Undefined])
                     EXCEPT !.on = TRUE]
            ELSE twin

NewLink(ro, dbg, transactional, on) ==
    [readOnly |-> ro, debug |-> dbg, cache |-> EmptyCache(transactional),
     queriesToUpdate |-> << >>, inflightOptimisticRequests |-> << >>,
     log |-> << >>, threw |-> FALSE, ret |-> Undefined, on |-> on]

\* the constructor (part_000:24-38)
InitLink(ro, dbg, transactional) ==
    /\ readOnly = ro
    /\ debug = dbg
    /\ cache = EmptyCache(transactional)
    /\ queriesToUpdate = << >>
    /\ inflightOptimisticRequests = << >>
    /\ pending = {}
    /\ issued = 0
    /\ external = 0
    /\ entry = << >>
    /\ last = Did("init", NoOp, NoResult, NewLink(ro, dbg, transactional, FALSE),
                  NoResult, NoEntry)

Init ==
    /\ \E ro \in BOOLEAN, transactional \in BOOLEAN :
          InitLink(ro, FALSE, transactional)
    /\ twin = NewLink(FALSE, FALSE, TRUE, FALSE)

\* request() runs up to the forward
Enter(o, failing) ==
    /\ LET operation == [id |-> issued + 1] @@ o
           new       == requestEntry(Self, operation, failing)
           watchedOptimistic ==
               isOptimistic(operation.context) /\ isWatched(operation.query)
           mine      == [data  |-> cache.data,
                         keys  |-> getCachedQueryKeysToUpdate(Self, operation.query),
                         clean |-> TRUE,
                         fault |-> \E i \in 1..Len(new.log) : new.log[i].val = Throws,
                         alone |-> PendingOptimistic = {},
                         reverted |-> FALSE]
       IN  /\ Install(new)
           /\ pending' = pending \cup {operation}
           /\ issued' = issued + 1
           /\ entry' = IF watchedOptimistic
                       THEN (operation.id :> mine) @@ Disturb(entry, 0, Changed(new))
                       ELSE Disturb(entry, 0, Changed(new))
           /\ last' = Did("request", operation, NoResult, new, NoResult, NoEntry)
           /\ TwinStep(LAMBDA ls : requestEntry(ls, operation, failing))
    /\ UNCHANGED <<readOnly, debug, external>>

\* an operation enters the link
Request(o, failing) ==
    /\ issued < MaxRequests
    /\ Enter(o, failing)

\* the transport delivers the result of a pending operation
Result(operation, result, failing) ==
    /\ operation \in pending
    /\ LET new == onResult(Self, operation, result, failing)
           was == IF operation.id \in DOMAIN entry THEN entry[operation.id] ELSE NoEntry
       IN  /\ Install(new)
           /\ pending' = pending \ {operation}
           /\ entry' = MarkReverted(
                           Disturb(entry, operation.id, Changed(new)),
                           /\ isFailedMutation(operation.operation, result)
                           /\ isWatched(operation.query)
                           /\ isOptimistic(operation.context))
           /\ last' = Did("result", operation, result, new,
                          resultReturned(new, result), was)
           /\ TwinStep(LAMBDA ls : onResult(ls, operation, result, failing))
    /\ UNCHANGED <<readOnly, debug, issued, external>>

\* the application's cache layer stores a query result, outside the link
ExternalWrite(key, data) ==
    /\ external < MaxExternal
    /\ LET new == [Self EXCEPT !.cache = writeQuery(cache, key, data)]
       IN  /\ Install(new)
           /\ entry' = Disturb(entry, 0, Changed(new))
           /\ last' = Did("externalWrite", NoOp, NoResult, new, NoResult, NoEntry)
           /\ TwinStep(LAMBDA ls : [ls EXCEPT !.cache = writeQuery(ls.cache, key, data)])
    /\ external' = external + 1
    /\ UNCHANGED <<readOnly, debug, pending, issued>>

\* a root field is invalidated outside the link
ExternalEvict(fieldId) ==
    /\ external < MaxExternal
    /\ fieldId \in cache.ids
    /\ LET new == [Self EXCEPT !.cache = storeEvict(cache, fieldId)]
       IN  /\ Install(new)
           /\ entry' = Disturb(entry, 0, Changed(new))
           /\ last' = Did("externalEvict", NoOp, NoResult, new, NoResult, NoEntry)
           /\ TwinStep(LAMBDA ls : [ls EXCEPT !.cache = storeEvict(ls.cache, fieldId)])
    /\ external' = external + 1
    /\ UNCHANGED <<readOnly, debug, pending, issued>>

\* direct calls of the cache manager: link.cache.write, evict and gc
AdapterWrite(key, data, failing) ==
    /\ external < MaxExternal
    /\ LET new == cacheWrite(Self, key, data, failing)
       IN  /\ Install(new)
           /\ entry' = Disturb(entry, 0, Changed(new))
           /\ last' = Did("write", NoOp, NoResult, new, NoResult, NoEntry)
           /\ TwinStep(LAMBDA ls : cacheWrite(ls, key, data, failing))
    /\ external' = external + 1
    /\ UNCHANGED <<readOnly, debug, pending, issued>>

AdapterEvict(key, failing) ==
    /\ external < MaxExternal
    /\ LET new == cacheEvict(Self, key, failing)
       IN  /\ Install(new)
           /\ entry' = Disturb(entry, 0, Changed(new))
           /\ last' = Did("evict", [NoOp EXCEPT !.query = key.query,
                                                 !.variables = key.variables],
                          NoResult, new, NoResult, NoEntry)
           /\ TwinStep(LAMBDA ls : cacheEvict(ls, key, failing))
    /\ external' = external + 1
    /\ UNCHANGED <<readOnly, debug, pending, issued>>

AdapterGc(fails) ==
    /\ external < MaxExternal
    /\ LET new == cacheGc(Self, fails)
       IN  /\ Install(new)
           /\ entry' = Disturb(entry, 0, Changed(new))
           /\ last' = Did("gc", NoOp, NoResult, new, NoResult, NoEntry)
           /\ TwinStep(LAMBDA ls : cacheGc(ls, fails))
    /\ external' = external + 1
    /\ UNCHANGED <<readOnly, debug, pending, issued>>

SeedData == {Obj(<<"A">>)}

Next ==
    \/ \E o \in Operations :
           \E failing \in Failures(requestEntry(Self, [id |-> 0] @@ o, {}).log) :
               Request(o, failing)
    \/ \E operation \in pending, result \in {[ok |-> TRUE, data |-> "Bp"],
                                             [ok |-> TRUE, data |-> "none"],
                                             [ok |-> FALSE, data |-> "none"]} :
           /\ result \in ResultsOf(operation)
           /\ \E failing \in Failures(onResult(Self, operation, result, {}).log) :
                  Result(operation, result, failing)
    \/ \E key \in Keys, data \in SeedData : ExternalWrite(key, data)
    \/ \E fieldId \in cache.ids : ExternalEvict(fieldId)

\* the steps of Next and the direct calls of the cache manager
NextAdapter ==
    \/ Next
    \/ \E key \in CacheKeys, data \in SeedData :
           \E failing \in {{}, {StoreId(key)}} : AdapterWrite(key, data, failing)
    \/ \E key \in CacheKeys : \E failing \in FieldFailures(key) :
           AdapterEvict(key, failing)
    \/ \E fails \in BOOLEAN : AdapterGc(fails)

Spec == Init /\ [][Next]_vars

-----------------------------------------------------------------------------
(* A read-only link, with the direct calls of its cache manager *)

InitReadOnly ==
    /\ \E dbg \in BOOLEAN : InitLink(TRUE, dbg, TRUE)
    /\ twin = NewLink(FALSE, FALSE, TRUE, FALSE)

SpecReadOnly == InitReadOnly /\ [][NextAdapter]_vars

-----------------------------------------------------------------------------
(* A read-only link and a read-write link fed the same steps *)

InitPair ==
    /\ InitLink(TRUE, FALSE, TRUE)
    /\ twin = NewLink(FALSE, FALSE, TRUE, TRUE)

SpecPair == InitPair /\ [][Next]_vars

-----------------------------------------------------------------------------
(* The query key manager on its own: addQuery and removeQuery called with   *)
(* keys whose variables objects were built in different ways                *)

TrackerVariables == {FilterX, FilterXPage, PageFilterX, FilterXUndef}

TrackerKeys == {Key(q, v) : q \in {"ListItems", "Summary"}, v \in TrackerVariables}

AddQueryCall(queryName, queryKey) ==
    /\ queriesToUpdate' = addQuery(queriesToUpdate, queryName, queryKey)
    /\ last' = Did("addQuery", [NoOp EXCEPT !.query = queryName,
                                            !.variables = queryKey.variables],
                   NoResult, [Self EXCEPT !.queriesToUpdate = queriesToUpdate'],
                   NoResult, NoEntry)
    /\ UNCHANGED <<readOnly, debug, cache, inflightOptimisticRequests, pending,
                   issued, external, entry, twin>>

RemoveQueryCall(queryName, queryKey) ==
    /\ LET r     == removeQuery(queriesToUpdate, queryName, queryKey)
           threw == queryName \notin DOMAIN queriesToUpdate
       IN  /\ queriesToUpdate' = IF threw THEN queriesToUpdate ELSE r
           /\ last' = Did("removeQuery", [NoOp EXCEPT !.query = queryName,
                                                      !.variables = queryKey.variables],
                          NoResult, [Self EXCEPT !.threw = threw], NoResult, NoEntry)
    /\ UNCHANGED <<readOnly, debug, cache, inflightOptimisticRequests, pending,
                   issued, external, entry, twin>>

NextTracker ==
    \/ \E key \in TrackerKeys : AddQueryCall(key.query, key)
    \/ \E key \in TrackerKeys : RemoveQueryCall(key.query, key)

InitTracker ==
    /\ InitLink(FALSE, FALSE, TRUE)
    /\ twin = NewLink(FALSE, FALSE, TRUE, FALSE)

SpecTracker == InitTracker /\ [][NextTracker]_vars

-----------------------------------------------------------------------------
(* Properties *)

\* what kind of step the record l describes
IsTrack(l) ==
    /\ l.act = "result"
    /\ isSuccessfulQuery(l.op.operation, l.result)
    /\ isQueryRelated(l.op.query)

IsCommit(l) ==
    /\ l.act = "result"
    /\ isSuccessfulMutation(l.op.operation, l.result)
    /\ isWatched(l.op.query)
    /\ ~isOptimistic(l.op.context)

IsConfirm(l) ==
    /\ l.act = "result"
    /\ isSuccessfulMutation(l.op.operation, l.result)
    /\ isWatched(l.op.query)
    /\ isOptimistic(l.op.context)

IsRevert(l) ==
    /\ l.act = "result"
    /\ isFailedMutation(l.op.operation, l.result)
    /\ isWatched(l.op.query)
    /\ isOptimistic(l.op.context)

IsEntry(l) ==
    /\ l.act = "request"
    /\ isWatched(l.op.query)
    /\ isOptimistic(l.op.context)

EventsOf(log, ev) == {i \in 1..Len(log) : log[i].ev = ev}

NoStoreFault(log) == \A i \in 1..Len(log) : log[i].val # Throws

Present(x) == x # Null /\ x # Undefined

\* the transform's output for a key whose cached data is cached
Transformed(operation, mutationData, queryKey, cached) ==
    UpdateFn(operation.query, queryKey.query,
             TransformArgs(operation, mutationData, queryKey, cached))

\* C1: when a watched, non-optimistic mutation succeeds on a read-write link
\* whose store accepts the writes, every tracked key of an affected query for
\* which the transform answers a present value ends up holding the transform's
\* output for the value the cache held just before the update pass.
C1_CommitWritesTransform ==
    [][(IsCommit(last') /\ ~readOnly /\ NoStoreFault(last'.log)) =>
          \A key \in SeqToSet(getCachedQueryKeysToUpdate(Self, last'.op.query)) :
             LET before == cache.data[StoreId(key)]
             IN  (before # Undefined
                  /\ Present(Transformed(last'.op, last'.result, key, before)))
                 => cache'.data[StoreId(key)] =
                        Transformed(last'.op, last'.result, key, before)]_vars

C1_Witness ==
    /\ IsCommit(last)
    /\ ~readOnly
    /\ \E i \in EventsOf(last.log, "writeQuery") :
          /\ last.log[i].val = Obj(<<"A", "Bp">>)
          /\ cache.data[StoreId(last.log[i].key)] = Obj(<<"A", "Bp">>)

\* C2: when the optimistic entry of a watched mutation is followed by its
\* failure, with no other change to the cache, the tracker or the snapshots in
\* between and a store that accepts the revert's writes, every key affected at
\* entry holds the value it held before the entry and has no snapshot left.
C2_RevertRestores ==
    (IsRevert(last) /\ last.entry.clean /\ NoStoreFault(last.log)) =>
        \A key \in SeqToSet(last.entry.keys) :
           /\ cache.data[StoreId(key)] = last.entry.data[StoreId(key)]
           /\ ~Present(getBeforeState(inflightOptimisticRequests, KeyId(key)))

C2_Witness ==
    /\ IsRevert(last)
    /\ last.entry.clean
    /\ ~readOnly
    /\ \E i \in EventsOf(last.log, "writeQuery") :
          /\ last.log[i].val = Obj(<<"A">>)
          /\ cache.data[StoreId(last.log[i].key)] = Obj(<<"A">>)
          /\ last.entry.data[StoreId(last.log[i].key)] = Obj(<<"A">>)

\* C3: in a state with no unresolved watched optimistic mutation, no cache key
\* has a snapshot.
C3_NoSnapshotWithoutPending ==
    PendingOptimistic = {} =>
        \A id \in DOMAIN inflightOptimisticRequests :
            ~Present(inflightOptimisticRequests[id])

\* C4 as stated: after the confirmation of an undisturbed optimistic mutation
\* every affected key holds the transform of its pre-mutation value by the
\* real result.
C4_ConfirmHoldsRealResult ==
    (IsConfirm(last) /\ last.entry.clean /\ ~last.entry.fault /\ ~readOnly) =>
        \A key \in SeqToSet(last.entry.keys) :
           LET before == last.entry.data[StoreId(key)]
           IN  (before # Undefined
                /\ Present(Transformed(last.op, last.result, key, before)))
               => cache.data[StoreId(key)] =
                      Transformed(last.op, last.result, key, before)

\* C4, amended: after the confirmation of an undisturbed optimistic mutation on
\* a read-write link every affected key holds the transform of its
\* pre-mutation value by the predicted result, applied once: the confirmation
\* writes nothing, neither the real result nor a second application.
C4_ConfirmKeepsPrediction ==
    (IsConfirm(last) /\ last.entry.clean /\ ~last.entry.fault /\ ~readOnly) =>
        /\ EventsOf(last.log, "write") = {}
        /\ \A key \in SeqToSet(last.entry.keys) :
              LET before    == last.entry.data[StoreId(key)]
                  predicted == [data |-> last.op.context.optimisticResponse]
              IN  (before # Undefined
                   /\ Present(Transformed(last.op, predicted, key, before)))
                  => cache.data[StoreId(key)] =
                         Transformed(last.op, predicted, key, before)

C4_Witness ==
    /\ IsConfirm(last)
    /\ last.entry.clean
    /\ ~last.entry.fault
    /\ ~readOnly
    /\ last.result.data = "Bp"
    /\ \E key \in SeqToSet(last.entry.keys) :
          /\ last.entry.data[StoreId(key)] = Obj(<<"A">>)
          /\ cache.data[StoreId(key)] = Obj(<<"A", "B">>)

\* C5: no step of a read-only link (a request, a result, a direct write, evict
\* or gc of its cache manager) calls writeQuery or evict on the store or
\* changes the store.
C5_ReadOnlyNeverTouchesStore ==
    [][(readOnly /\ last'.act \notin {"externalWrite", "externalEvict"}) =>
          /\ cache' = cache
          /\ EventsOf(last'.log, "writeQuery") = {}
          /\ EventsOf(last'.log, "evict") = {}]_vars

C5_Witness ==
    /\ readOnly
    /\ IsRevert(last)
    /\ EventsOf(last.log, "write") # {}
    /\ \E key \in Keys : cache.data[StoreId(key)] # Undefined

\* the snapshot keys a step set, in order, and whether it cleared them
SnapshotOps(log) ==
    [i \in 1..Len(SelectSeq(log, LAMBDA e : e.ev = "snapshot")) |->
        LET e == SelectSeq(log, LAMBDA x : x.ev = "snapshot")[i]
        IN  [id |-> e.val.id, cleared |-> e.val.value = Null]]

SamePresence(c1, c2) ==
    \A id \in StoreIds : (c1.data[id] = Undefined) <=> (c2.data[id] = Undefined)

\* C6 as stated: a read-only link and a read-write link fed the same steps
\* have the same tracker and set and clear the same snapshot keys at every step.
C6_SameBookkeeping ==
    twin.on =>
        /\ queriesToUpdate = twin.queriesToUpdate
        /\ SnapshotOps(last.log) = SnapshotOps(twin.log)

\* C6, amended: every step that starts with the two trackers equal and the
\* two caches holding entries for the same keys ends with the two trackers
\* equal and sets and clears the same snapshot keys in both links.
C6_SameBookkeepingWhilePresenceAgrees ==
    [][(twin.on /\ queriesToUpdate = twin.queriesToUpdate
        /\ SamePresence(cache, twin.cache)) =>
          /\ queriesToUpdate' = twin'.queriesToUpdate
          /\ SnapshotOps(last'.log) = SnapshotOps(twin'.log)]_vars

C6_Witness ==
    /\ twin.on
    /\ IsRevert(last)
    /\ queriesToUpdate = twin.queriesToUpdate
    /\ SnapshotOps(last.log) # << >>
    /\ EventsOf(twin.log, "writeQuery") # {}
    /\ EventsOf(last.log, "writeQuery") = {}

IsUpdatePass(l) == IsCommit(l) \/ IsEntry(l)

\* C7: in the update pass of a watched mutation (commit or optimistic entry) a
\* tracked key whose cache read is absent is removed from the tracker, gets no
\* transform call and no write; every other affected key gets its transform call.
C7_AbsentKeyUntracked ==
    [][IsUpdatePass(last') =>
          \A key \in SeqToSet(getCachedQueryKeysToUpdate(Self, last'.op.query)) :
             IF cache.data[StoreId(key)] = Undefined
             THEN /\ key \notin SeqToSet(getQueryKeysToUpdate(queriesToUpdate', key.query))
                  /\ \A i \in EventsOf(last'.log, "transform") \cup
                                 EventsOf(last'.log, "write") \cup
                                 EventsOf(last'.log, "writeQuery") :
                        last'.log[i].key # key
             ELSE /\ key \in SeqToSet(getQueryKeysToUpdate(queriesToUpdate', key.query))
                  /\ \E i \in EventsOf(last'.log, "transform") : last'.log[i].key = key]_vars

C7_Witness ==
    /\ IsUpdatePass(last)
    /\ EventsOf(last.log, "untrack") # {}
    /\ EventsOf(last.log, "transform") # {}
    /\ \E i \in EventsOf(last.log, "untrack") :
          last.log[i].key \notin
              SeqToSet(getQueryKeysToUpdate(queriesToUpdate, last.log[i].key.query))

\* C8: a successful watched query adds its own key and keeps every key already
\* tracked, so two variable sets of one query name are two tracked keys; a
\* commit calls the transform once per present tracked key, with that key's
\* variables and cached data, and every store write carries the output computed
\* for the key it is written to.
C8_KeysUpdatedIndependently ==
    [][/\ IsTrack(last') =>
             /\ createKey(last'.op) \in
                    SeqToSet(getQueryKeysToUpdate(queriesToUpdate', last'.op.query))
             /\ SeqToSet(getQueryKeysToUpdate(queriesToUpdate, last'.op.query)) \subseteq
                    SeqToSet(getQueryKeysToUpdate(queriesToUpdate', last'.op.query))
       /\ IsCommit(last') =>
             /\ \A key \in SeqToSet(getCachedQueryKeysToUpdate(Self, last'.op.query)) :
                   cache.data[StoreId(key)] # Undefined =>
                      /\ Cardinality({i \in EventsOf(last'.log, "transform") :
                                         last'.log[i].key = key}) = 1
                      /\ \A i \in EventsOf(last'.log, "transform") :
                            last'.log[i].key = key =>
                               /\ last'.log[i].val.args.query.variables = key.variables
                               /\ last'.log[i].val.args.query.result =
                                      cache.data[StoreId(key)]
             /\ \A j \in EventsOf(last'.log, "writeQuery") :
                   \E i \in EventsOf(last'.log, "transform") :
                      /\ last'.log[i].key = last'.log[j].key
                      /\ last'.log[j].val \in {last'.log[i].val.out, Throws}
             /\ \A id \in StoreIds :
                   (\A j \in EventsOf(last'.log, "writeQuery") :
                       StoreId(last'.log[j].key) # id)
                   => cache'.data[id] = cache.data[id]]_vars

C8_Witness ==
    /\ IsCommit(last)
    /\ Len(getQueryKeysToUpdate(queriesToUpdate, "ListItems")) = 2
    /\ \E i, j \in EventsOf(last.log, "writeQuery") :
          /\ last.log[i].key.variables = FilterX
          /\ last.log[j].key.variables = FilterY
          /\ cache.data[StoreId(last.log[i].key)] = Obj(<<"A", "Bp">>)
          /\ cache.data[StoreId(last.log[j].key)] = Obj(<<"Bp", "A">>)

\* C9: no tracked list contains two structurally-equal keys.
C9_NoStructurallyEqualKeys ==
    \A queryName \in DOMAIN queriesToUpdate :
       \A i, j \in 1..Len(queriesToUpdate[queryName]) :
          StructurallyEqual(queriesToUpdate[queryName][i], queriesToUpdate[queryName][j])
              => i = j

\* C10: whatever branch handles a result, and whether or not the cache reads
\* and writes made while handling it fail, the caller is handed the
\* transport's result unchanged.
C10_ResultPassedThrough ==
    last.act = "result" => (last.returned = last.result /\ ~last.threw)

C10_Witness ==
    /\ IsCommit(last)
    /\ last.returned = last.result
    /\ \E i \in EventsOf(last.log, "writeQuery") : last.log[i].val = Throws
    /\ \E i \in EventsOf(last.log, "read") : last.log[i].val = Undefined

\* the key a direct call of the tracker was made with
CalledKey(l) == Key(l.op.query, l.op.variables)

\* C11: removeQuery(queryName, key) completes normally, removes the entries
\* structurally equal to key from the list of queryName and leaves every
\* other list as it was, also when nothing was ever tracked under queryName.
C11_RemoveQueryCompletes ==
    [][last'.act = "removeQuery" =>
          /\ ~last'.threw
          /\ \A name \in {"ListItems", "Summary"} :
                getQueryKeysToUpdate(queriesToUpdate', name) =
                    IF name = last'.op.query
                    THEN SelectSeq(getQueryKeysToUpdate(queriesToUpdate, name),
                                   LAMBDA k : ~StructurallyEqual(k, CalledKey(last')))
                    ELSE getQueryKeysToUpdate(queriesToUpdate, name)]_vars

-----------------------------------------------------------------------------
(* The cache manager of a read-write link called directly, debug on or off, *)
(* next to the cache manager of a link without debug given the same calls   *)

AdapterRead(key) ==
    /\ external < MaxExternal
    /\ LET new == [Logged(Self, "read", key, cacheRead(Self, key))
                      EXCEPT !.ret = cacheRead(Self, key)]
       IN  /\ Install(new)
           /\ entry' = Disturb(entry, 0, Changed(new))
           /\ last' = Did("read", [NoOp EXCEPT !.query = key.query,
                                                !.variables = key.variables],
                          NoResult, new, NoResult, NoEntry)
           /\ TwinStep(LAMBDA ls : [Logged(ls, "read", key, cacheRead(ls, key))
                                       EXCEPT !.ret = cacheRead(ls, key)])
    /\ external' = external + 1
    /\ UNCHANGED <<readOnly, debug, pending, issued>>

\* performTransaction called with a body that writes the given items
AdapterTransaction(itemsToWrite, failing) ==
    /\ external < MaxExternal
    /\ LET new == performTransaction(Self, itemsToWrite, failing)
       IN  /\ Install(new)
           /\ entry' = Disturb(entry, 0, Changed(new))
           /\ last' = Did("transaction", NoOp, NoResult, new, NoResult, NoEntry)
           /\ TwinStep(LAMBDA ls : performTransaction(ls, itemsToWrite, failing))
    /\ external' = external + 1
    /\ UNCHANGED <<readOnly, debug, pending, issued>>

\* the bodies handed to performTransaction: one write, or two
TransactionBodies ==
    {<<[queryKey |-> Key("Summary", NoVars), updatedData |-> Obj(<<"A">>)]>>,
     <<[queryKey |-> Key("ListItems", FilterX), updatedData |-> Obj(<<"A">>)],
       [queryKey |-> Key("Summary", NoVars), updatedData |-> Obj(<<"B">>)]>>}

NextDirect ==
    \/ \E key \in CacheKeys : AdapterRead(key)
    \/ \E key \in CacheKeys, data \in SeedData :
           \E failing \in {{}, {StoreId(key)}} : AdapterWrite(key, data, failing)
    \/ \E key \in CacheKeys : \E failing \in FieldFailures(key) :
           AdapterEvict(key, failing)
    \/ \E fails \in BOOLEAN : AdapterGc(fails)
    \/ \E itemsToWrite \in TransactionBodies :
           \E failing \in {{}, {StoreId(itemsToWrite[1].queryKey)}} :
               AdapterTransaction(itemsToWrite, failing)

InitAdapter ==
    /\ \E dbg \in BOOLEAN : InitLink(FALSE, dbg, TRUE)
    /\ twin = NewLink(FALSE, FALSE, TRUE, TRUE)

SpecAdapter == InitAdapter /\ [][NextDirect]_vars

\* C12: on a read-write link whose store accepts the calls, evict(key) calls
\* the store's evict once per top-level field of the key's query, leaves none
\* of those fields in the store and returns true exactly when the store held
\* at least one of them.
C12_EvictsEveryField ==
    [][(last'.act = "evict" /\ ~readOnly /\ ~debug /\ NoStoreFault(last'.log)) =>
          /\ Cardinality(EventsOf(last'.log, "evict")) =
                 Len(FieldIdsOf(CalledKey(last')))
          /\ \A f \in SeqToSet(FieldIdsOf(CalledKey(last'))) : f \notin cache'.ids
          /\ last'.ret = Bool(\E f \in SeqToSet(FieldIdsOf(CalledKey(last'))) :
                                 storeEvictResult(cache, f))]_vars

\* C13: a link with debug on and a link with debug off, fed the same steps
\* with the same store outcomes, make the same store calls, leave the same
\* store, return the same value and both complete without an error.
C13_DebugDoesNotInterfere ==
    (debug /\ twin.on /\ ~twin.debug) =>
        /\ last.log = twin.log
        /\ cache = twin.cache
        /\ last.ret = twin.ret
        /\ last.threw = twin.threw
        /\ ~last.threw

-----------------------------------------------------------------------------
(* Properties of the passes of the link *)

\* the handler of the step l, run from the link state ls with a store that
\* accepts every write
WithoutFailure(ls, l) ==
    IF l.act = "request" THEN requestEntry(ls, l.op, {})
    ELSE onResult(ls, l.op, l.result, {})

\* the calls of the cache manager's write a step made, in order
WritesOf(log) == SelectSeq(log, LAMBDA e : e.ev = "write")

\* C14: when the store's writeQuery fails for a key during a commit, an
\* optimistic entry or a revert, no error leaves the handler, the pass calls
\* write for the same keys with the same data as it does when the store
\* accepts every write, and the tracker and the snapshot store end the pass
\* as they do then.
C14_StoreFailureSwallowed ==
    [][((IsUpdatePass(last') \/ IsRevert(last')) /\ ~NoStoreFault(last'.log)) =>
          /\ ~last'.threw
          /\ last'.act = "result" => last'.returned = last'.result
          /\ WritesOf(last'.log) = WritesOf(WithoutFailure(Self, last').log)
          /\ queriesToUpdate' = WithoutFailure(Self, last').queriesToUpdate
          /\ inflightOptimisticRequests' =
                 WithoutFailure(Self, last').inflightOptimisticRequests]_vars

C14_Witness ==
    /\ IsCommit(last)
    /\ ~last.threw
    /\ \E i, j \in EventsOf(last.log, "writeQuery") :
          /\ i < j
          /\ last.log[i].val = Throws
          /\ last.log[j].val = Obj(<<"Bp", "A">>)
          /\ cache.data[StoreId(last.log[i].key)] = Obj(<<"A">>)
          /\ cache.data[StoreId(last.log[j].key)] = Obj(<<"Bp", "A">>)

\* C15: when a watched optimistic mutation is entered while another one is
\* still in flight, the snapshot of every tracked key it affects is
\* overwritten with the value the cache holds at that moment, the snapshot
\* taken by the earlier mutation included. (The interleaving in which both
\* mutations then fail and the key ends with another value than before the
\* first entry is the state of C15_Witness.)
C15_SecondEntryOverwritesSnapshot ==
    [][(IsEntry(last') /\ PendingOptimistic # {}) =>
          \A key \in SeqToSet(getCachedQueryKeysToUpdate(Self, last'.op.query)) :
             getBeforeState(inflightOptimisticRequests', KeyId(key)) =
                 cacheRead(Self, key)]_vars

\* both mutations have failed, the first one entered last: the key holds the
\* first prediction instead of the value it held before the first entry
C15_Witness ==
    /\ IsRevert(last)
    /\ ~readOnly
    /\ last.entry.alone
    /\ last.entry.reverted
    /\ PendingOptimistic = {}
    /\ issued = 3
    /\ external = 1
    /\ \E key \in SeqToSet(last.entry.keys) :
          /\ last.entry.data[StoreId(key)] = Obj(<<"A">>)
          /\ cache.data[StoreId(key)] = Obj(<<"A", "B">>)

\* how the store of cache c runs a transaction body
TransactionKind(c) ==
    [type |-> IF c.transactional THEN "performTransaction" ELSE "immediate"]

\* C16: an update pass (commit or optimistic entry) opens exactly one
\* transaction, through the store's performTransaction when it has one and
\* immediately otherwise; every cache read and every transform call of the
\* pass comes before the transaction opens, every write is made inside it, and
\* each transform is handed the value its key held before the pass.
C16_ReadsThenOneTransaction ==
    [][IsUpdatePass(last') =>
          \E b, e \in 1..Len(last'.log) :
             /\ EventsOf(last'.log, "txBegin") = {b}
             /\ EventsOf(last'.log, "txEnd") = {e}
             /\ b < e
             /\ last'.log[b].val = TransactionKind(cache)
             /\ last'.log[e].val = TransactionKind(cache)
             /\ \A i \in EventsOf(last'.log, "read") \cup
                            EventsOf(last'.log, "transform") : i < b
             /\ \A i \in EventsOf(last'.log, "write") \cup
                            EventsOf(last'.log, "writeQuery") : b < i /\ i < e
             /\ \A i \in EventsOf(last'.log, "transform") :
                   last'.log[i].val.args.query.result =
                       cache.data[StoreId(last'.log[i].key)]]_vars

C16_Witness ==
    /\ IsCommit(last)
    /\ ~readOnly
    /\ cache.transactional
    /\ Cardinality(EventsOf(last.log, "transform")) = 2
    /\ Cardinality(EventsOf(last.log, "writeQuery")) = 2
    /\ \E b \in EventsOf(last.log, "txBegin") :
          /\ last.log[b].val = [type |-> "performTransaction"]
          /\ \A i \in EventsOf(last.log, "transform") : i < b
          /\ \A i \in EventsOf(last.log, "writeQuery") : b < i

\* C17: at the entry of a watched optimistic mutation every affected key gets
\* its snapshot set before the first write of the entry, to the value the
\* cache held for the key when the entry began, and that is the snapshot the
\* key has when the entry is over.
C17_SnapshotBeforeSpeculativeWrite ==
    [][IsEntry(last') =>
          \A key \in SeqToSet(getCachedQueryKeysToUpdate(Self, last'.op.query)) :
             /\ \E s \in EventsOf(last'.log, "snapshot") :
                   /\ last'.log[s].val.id = KeyId(key)
                   /\ last'.log[s].val.value = cacheRead(Self, key)
                   /\ \A w \in EventsOf(last'.log, "write") \cup
                                  EventsOf(last'.log, "writeQuery") : s < w
             /\ \A s \in EventsOf(last'.log, "snapshot") :
                   last'.log[s].val.id = KeyId(key) =>
                       last'.log[s].val.value = cacheRead(Self, key)
             /\ getBeforeState(inflightOptimisticRequests', KeyId(key)) =
                    cacheRead(Self, key)]_vars

C17_Witness ==
    /\ IsEntry(last)
    /\ ~readOnly
    /\ \E s \in EventsOf(last.log, "snapshot"), w \in EventsOf(last.log, "writeQuery") :
          /\ s < w
          /\ last.log[s].key = last.log[w].key
          /\ last.log[s].val.value = Obj(<<"A">>)
          /\ last.log[w].val = Obj(<<"A", "B">>)
          /\ getBeforeState(inflightOptimisticRequests, KeyId(last.log[w].key)) =
                 Obj(<<"A">>)
          /\ cache.data[StoreId(last.log[w].key)] = Obj(<<"A", "B">>)

\* the step l handled the result of a failed query, of a query no watched
\* mutation names, of an unwatched mutation or of a failed non-optimistic
\* watched mutation
IsPassThrough(l) ==
    /\ l.act = "result"
    /\ \/ /\ l.op.operation = "query"
          /\ ~l.result.ok \/ l.op.query \notin getAllRegisteredQueryNames
       \/ /\ l.op.operation = "mutation"
          /\ \/ l.op.query \notin getMutationNames
             \/ ~l.result.ok /\ ~l.op.context.optimistic

\* C18: handling the result of a failed query, of a query no watched mutation
\* names, of an unwatched mutation or of a failed non-optimistic watched
\* mutation makes no call on the cache, the tracker or the snapshot store and
\* leaves all three unchanged.
C18_OtherResultsChangeNothing ==
    [][IsPassThrough(last') =>
          /\ last'.log = << >>
          /\ cache' = cache
          /\ queriesToUpdate' = queriesToUpdate
          /\ inflightOptimisticRequests' = inflightOptimisticRequests]_vars

C18_Witness ==
    /\ IsPassThrough(last)
    /\ last.op.query = "AddItem"
    /\ ~last.result.ok
    /\ PendingOptimistic # {}
    /\ \E key \in SeqToSet(getQueryKeysToUpdate(queriesToUpdate, "ListItems")) :
          /\ cache.data[StoreId(key)] = Obj(<<"A", "B">>)
          /\ getBeforeState(inflightOptimisticRequests, KeyId(key)) = Obj(<<"A">>)

\* the keys tracked under name
TrackedUnder(q, name) == SeqToSet(getQueryKeysToUpdate(q, name))

\* C19: after every step each tracked key is tracked under the name of its own
\* query, and a key that the step added to the tracker is the key of the
\* operation whose result the step handled: a successful query whose name is
\* among the names the watched mutations affect.
C19_KeysEnterOnRelatedQuerySuccess ==
    [][\A name \in DOMAIN queriesToUpdate' :
          /\ \A key \in TrackedUnder(queriesToUpdate', name) : key.query = name
          /\ \A key \in TrackedUnder(queriesToUpdate', name) \
                            TrackedUnder(queriesToUpdate, name) :
                /\ last'.act = "result"
                /\ last'.op.operation = "query"
                /\ last'.result.ok
                /\ last'.op.query \in getAllRegisteredQueryNames
                /\ last'.op.query = name
                /\ key = createKey(last'.op)]_vars

C19_Witness ==
    /\ IsTrack(last)
    /\ last.op.query = "ListItems"
    /\ Len(getQueryKeysToUpdate(queriesToUpdate, "ListItems")) = 2
    /\ getQueryKeysToUpdate(queriesToUpdate, "ListItems")[2] = createKey(last.op)
    /\ DOMAIN queriesToUpdate = {"ListItems"}

-----------------------------------------------------------------------------
(* One key, and at most one optimistic mutation in flight at any time:      *)
(* queries, non-optimistic mutations and external invalidations interleave  *)
(* freely with it.                                                          *)

MaxSerialRequests == 5

SerialKey == Key("ListItems", FilterX)

SerialOperations ==
    {Op("query", "ListItems", FilterX, NoContext),
     Op("mutation", "AddItem", NoVars, NoContext),
     Op("mutation", "AddItem", NoVars, OptimisticContext("B"))}

\* an operation enters the link; an optimistic mutation only when none is
\* in flight
SerialRequest(o, failing) ==
    /\ issued < MaxSerialRequests
    /\ (isOptimistic(o.context) /\ isWatched(o.query)) => PendingOptimistic = {}
    /\ Enter(o, failing)

NextSerial ==
    \/ \E o \in SerialOperations :
           \E failing \in Failures(requestEntry(Self, [id |-> 0] @@ o, {}).log) :
               SerialRequest(o, failing)
    \/ \E operation \in pending, result \in {[ok |-> TRUE, data |-> "Bp"],
                                             [ok |-> TRUE, data |-> "none"],
                                             [ok |-> FALSE, data |-> "none"]} :
           /\ result \in ResultsOf(operation)
           /\ \E failing \in Failures(onResult(Self, operation, result, {}).log) :
                  Result(operation, result, failing)
    \/ \E data \in SeedData : ExternalWrite(SerialKey, data)
    \/ \E fieldId \in cache.ids : ExternalEvict(fieldId)

InitSerial ==
    /\ InitLink(FALSE, FALSE, TRUE)
    /\ twin = NewLink(FALSE, FALSE, TRUE, FALSE)

SpecSerial == InitSerial /\ [][NextSerial]_vars

\* C20: with at most one optimistic mutation in flight at any time, every
\* write made by the revert of a failed optimistic mutation goes to a key that
\* was snapshotted at the entry of that mutation and carries the value the
\* cache held for the key at that entry.
C20_RevertWritesOwnSnapshot ==
    [][IsRevert(last') =>
          \A w \in EventsOf(last'.log, "write") :
             /\ last'.log[w].key \in SeqToSet(last'.entry.keys)
             /\ last'.log[w].val = last'.entry.data[StoreId(last'.log[w].key)]]_vars

====
